---- MODULE Spec2Model ----
(***************************************************************************)
(* leitmotiv.models._models: the abstract base class Model (abc.ABC) with  *)
(* the abstract operations train, infer, to_dict, from_dict and the two    *)
(* concrete helpers save and load, which pass a state dictionary to and    *)
(* from torch.save / torch.load(map_location='cpu').                       *)
(*                                                                         *)
(* A state dictionary is a set of entries <<key, data, device>>: an array  *)
(* lives on a device, a scalar has device "scalar".  A file is absent,     *)
(* corrupt (a partial or unreadable archive) or a zip archive holding the  *)
(* entries that were written.                                              *)
(***************************************************************************)
EXTENDS Naturals, Sequences, FiniteSets

\* Bound on the number of train iterations one model undergoes.
MaxTrain == 1

\* ------------------------------------------------------------------ classes

Methods == {"train", "infer", "to_dict", "from_dict"}

\* Model itself and subclasses of it.  Linear and Gauss implement the four
\* abstract operations; the others omit one of them each.
Classes == {"Model", "Linear", "Gauss", "NoTrain", "NoInfer", "NoToDict", "NoFromDict"}

Implements(cls) ==
  CASE cls = "Model"      -> {}
    [] cls = "Linear"     -> Methods
    [] cls = "Gauss"      -> Methods
    [] cls = "NoTrain"    -> Methods \ {"train"}
    [] cls = "NoInfer"    -> Methods \ {"infer"}
    [] cls = "NoToDict"   -> Methods \ {"to_dict"}
    [] cls = "NoFromDict" -> Methods \ {"from_dict"}

\* abc.ABC: the class's __abstractmethods__, the abstract operations it has
\* not overridden.
AbstractMethods(cls) == Methods \ Implements(cls)

\* The keys of a class's state dictionary: Linear holds an array "w" and a
\* scalar "lr", the others an array "mu".
KeysOf(cls) == IF cls = "Linear" THEN {"w", "lr"} ELSE {"mu"}

\* The keys whose values are arrays.
ArrayKeys == {"w", "mu"}

\* The array one training iteration updates.
TrainedKey(cls) == IF cls = "Linear" THEN "w" ELSE "mu"

Devices == {"cpu", "cuda"}

Instances == {"m1", "m2"}

\* File names: "a.pt" lies in the working directory ".", "nodir/b.pt" in a
\* directory "nodir".
Names == {"a.pt", "nodir/b.pt"}
Parent(name) == IF name = "a.pt" THEN "." ELSE "nodir"

\* A path argument is a str or a pathlib.Path.
PathInputs == {"str", "Path"} \X Names

\* What the caller's environment does to one save call.
Faults == {"none", "to_dict_raises", "disk_full", "permission_denied"}

\* ------------------------------------------------------------------- values

\* A value: kind is "none" (nothing), "None" (Python's None), "model" (an
\* instance of cls with the given state), "dict" (a state dictionary),
\* "cost" (a training cost) or "raise" (the exception named by cls).
Val(kind, cls, state) == [kind |-> kind, cls |-> cls, state |-> state]
Nothing == Val("none", "none", {})
PyNone == Val("None", "none", {})
Raise(err) == Val("raise", err, {})

Keys(d) == {e[1] : e \in d}

AbsentFile == [kind |-> "absent", entries |-> {}]
CorruptFile == [kind |-> "corrupt", entries |-> {}]
ZipFile(d) == [kind |-> "zip", entries |-> d]

VARIABLES
  inst,      \* inst[i]: the model instance bound to name i (kind "none" or "model")
  dirs,      \* the directories that exist
  files,     \* files[name]: the file at that name
  last,      \* the most recent call: operation, class, path, the calls it made, each
             \* <<callee, "ok" or the exception it raised>>, and the mapping handed to from_dict
  ret,       \* what the most recent call returned or raised to its caller
  lastSaved, \* lastSaved[name]: class and to_dict() of the most recent save when every
             \* save to name so far succeeded since, else nothing
  savedFrom, \* savedFrom[name]: the instance whose successful save was the latest save to
             \* name and that has not trained since
  written    \* the names some save has written successfully

vars == <<inst, dirs, files, last, ret, lastSaved, savedFrom, written>>

Call(op, cls, path, calls, arg) ==
  [op |-> op, cls |-> cls, path |-> path, calls |-> calls, arg |-> arg]

NoPath == <<"Path", "">>

\* What a call that returned or raised v looks like in the record of calls.
Outcome(v) == IF v.kind = "raise" THEN v.cls ELSE "ok"

\* ------------------------------------------------------ abstract operations

\* cls(...): abc.ABC refuses to instantiate a class with abstract methods.
construct(cls, device) ==
  IF AbstractMethods(cls) # {}
  THEN Raise("TypeError")
  ELSE Val("model", cls,
           {<<k, 0, IF k \in ArrayKeys THEN device ELSE "scalar">> : k \in KeysOf(cls)})

\* One training iteration of a concrete model: not idempotent, the trained
\* array changes.
train(m) ==
  Val("model", m.cls,
      {IF e[1] = TrainedKey(m.cls) THEN <<e[1], e[2] + 1, e[3]>> ELSE e : e \in m.state})

\* The number of training iterations a model has undergone.
Steps(m) == (CHOOSE e \in m.state : e[1] = TrainedKey(m.cls))[2]

\* to_dict of a concrete model: its complete internal state.
to_dict(m) == m.state

\* cls.from_dict(model_dict).  A class that does not override it inherits
\* Model.from_dict, whose body is its docstring: it returns None.  A class
\* that overrides it reads its keys and builds cls(...).
from_dict(cls, model_dict) ==
  IF "from_dict" \notin Implements(cls)
  THEN PyNone
  ELSE IF ~(KeysOf(cls) \subseteq Keys(model_dict))
  THEN Raise("KeyError")
  ELSE IF AbstractMethods(cls) # {}
  THEN Raise("TypeError")
  ELSE Val("model", cls, {e \in model_dict : e[1] \in KeysOf(cls)})

\* ----------------------------------------------------------- collaborators

\* pathlib.Path(path): a str or a Path becomes a Path.
pathlib_Path(pin) == <<"Path", pin[2]>>

\* torch.save(obj, path): opens path for writing, which fails when the parent
\* directory is missing or the file may not be written, and truncates the
\* file; then writes the archive, which a full disk cuts short.
torch_save(obj, path, fault, ds, fs) ==
  IF Parent(path[2]) \notin ds
  THEN [files |-> fs, ret |-> Raise("FileNotFoundError")]
  ELSE IF fault = "permission_denied"
  THEN [files |-> fs, ret |-> Raise("PermissionError")]
  ELSE IF fault = "disk_full"
  THEN [files |-> [fs EXCEPT ![path[2]] = CorruptFile], ret |-> Raise("OSError")]
  ELSE [files |-> [fs EXCEPT ![path[2]] = ZipFile(obj)], ret |-> PyNone]

\* map_location applied to one entry of an archive: an array is placed on
\* map_location ("keep": on the device it was saved from), a scalar has no
\* device.
Relocate(e, map_location) ==
  IF e[3] = "scalar" \/ map_location = "keep" THEN e ELSE <<e[1], e[2], map_location>>

\* torch.load(path, map_location).
torch_load(path, map_location, fs) ==
  LET f == fs[path[2]] IN
  IF f.kind = "absent" THEN Raise("FileNotFoundError")
  ELSE IF f.kind = "corrupt" THEN Raise("UnpicklingError")
  ELSE Val("dict", "none", {Relocate(e, map_location) : e \in f.entries})

\* ------------------------------------------------------------ save and load

\* save that creates the missing parent directory before it writes.
save_mkdir(m, pin, fault, ds, fs) ==
  LET path == pathlib_Path(pin)
      made == ds \cup {Parent(path[2])}
      w == torch_save(to_dict(m), path, fault, made, fs)
  IN IF fault = "to_dict_raises"
     THEN [self |-> m, dirs |-> ds, files |-> fs, path |-> path,
           calls |-> <<<<"to_dict", "RuntimeError">>>>, ret |-> Raise("RuntimeError")]
     ELSE [self |-> m, dirs |-> made, files |-> w.files, path |-> path,
           calls |-> <<<<"to_dict", "ok">>, <<"torch.save", Outcome(w.ret)>>>>,
           ret |-> w.ret]

\* save that returns without writing when a file already exists at path.
save_keep_existing(m, pin, fault, ds, fs) ==
  LET path == pathlib_Path(pin)
      w == torch_save(to_dict(m), path, fault, ds, fs)
  IN IF fault = "to_dict_raises"
     THEN [self |-> m, dirs |-> ds, files |-> fs, path |-> path,
           calls |-> <<<<"to_dict", "RuntimeError">>>>, ret |-> Raise("RuntimeError")]
     ELSE IF fs[path[2]].kind # "absent"
     THEN [self |-> m, dirs |-> ds, files |-> fs, path |-> path,
           calls |-> <<<<"to_dict", "ok">>>>, ret |-> PyNone]
     ELSE [self |-> m, dirs |-> ds, files |-> w.files, path |-> path,
           calls |-> <<<<"to_dict", "ok">>, <<"torch.save", Outcome(w.ret)>>>>,
           ret |-> w.ret]

\* save that removes the partial file when the write fails, then re-raises.
save_cleanup(m, pin, fault, ds, fs) ==
  LET path == pathlib_Path(pin)
      w == torch_save(to_dict(m), path, fault, ds, fs)
  IN IF fault = "to_dict_raises"
     THEN [self |-> m, dirs |-> ds, files |-> fs, path |-> path,
           calls |-> <<<<"to_dict", "RuntimeError">>>>, ret |-> Raise("RuntimeError")]
     ELSE [self |-> m, dirs |-> ds,
           files |-> IF w.ret.kind = "raise" /\ w.files[path[2]].kind = "corrupt"
                     THEN [w.files EXCEPT ![path[2]] = AbsentFile] ELSE w.files,
           path |-> path,
           calls |-> <<<<"to_dict", "ok">>, <<"torch.save", Outcome(w.ret)>>>>,
           ret |-> w.ret]

\* save that moves the model's arrays to the CPU in place before it exports
\* them.
save_moves_to_cpu(m, pin, fault, ds, fs) ==
  LET path == pathlib_Path(pin)
      moved == Val("model", m.cls, {Relocate(e, "cpu") : e \in m.state})
      w == torch_save(to_dict(moved), path, fault, ds, fs)
  IN IF fault = "to_dict_raises"
     THEN [self |-> moved, dirs |-> ds, files |-> fs, path |-> path,
           calls |-> <<<<"to_dict", "RuntimeError">>>>, ret |-> Raise("RuntimeError")]
     ELSE [self |-> moved, dirs |-> ds, files |-> w.files, path |-> path,
           calls |-> <<<<"to_dict", "ok">>, <<"torch.save", Outcome(w.ret)>>>>,
           ret |-> w.ret]

\* Model.save(self, path): what it leaves of self, the directories and the
\* files, the calls it made and what it returns or raises.  to_dict of the
\* concrete class may raise.
save(m, pin, fault, ds, fs) ==
  LET path == pathlib_Path(pin)
      model_dict == IF fault = "to_dict_raises" THEN Raise("RuntimeError")
                    ELSE Val("dict", "none", to_dict(m))
  IN IF model_dict.kind = "raise"
     THEN [self |-> m, dirs |-> ds, files |-> fs, path |-> path,
           calls |-> <<<<"to_dict", Outcome(model_dict)>>>>, ret |-> model_dict]
     ELSE LET w == torch_save(model_dict.state, path, fault, ds, fs)
          IN [self |-> m, dirs |-> ds, files |-> w.files, path |-> path,
              calls |-> <<<<"to_dict", "ok">>, <<"torch.save", Outcome(w.ret)>>>>,
              ret |-> w.ret]

\* load that calls Model.from_dict, not cls.from_dict.
load_base_from_dict(cls, pin, fs) ==
  LET path == pathlib_Path(pin)
      model_dict == torch_load(path, "cpu", fs)
  IN IF model_dict.kind = "raise"
     THEN [files |-> fs, path |-> path,
           calls |-> <<<<"torch.load", Outcome(model_dict)>>>>,
           arg |-> Nothing, ret |-> model_dict]
     ELSE LET r == from_dict("Model", model_dict.state)
          IN [files |-> fs, path |-> path,
              calls |-> <<<<"torch.load", "ok">>, <<"from_dict", Outcome(r)>>>>,
              arg |-> model_dict, ret |-> r]

\* load that answers a missing file with None.
load_missing_is_none(cls, pin, fs) ==
  LET path == pathlib_Path(pin)
      model_dict == torch_load(path, "cpu", fs)
  IN IF model_dict.kind = "raise"
     THEN [files |-> fs, path |-> path,
           calls |-> <<<<"torch.load", Outcome(model_dict)>>>>,
           arg |-> Nothing,
           ret |-> IF model_dict.cls = "FileNotFoundError" THEN PyNone ELSE model_dict]
     ELSE LET r == from_dict(cls, model_dict.state)
          IN [files |-> fs, path |-> path,
              calls |-> <<<<"torch.load", "ok">>, <<"from_dict", Outcome(r)>>>>,
              arg |-> model_dict, ret |-> r]

\* load without map_location: every array stays on the device it was saved
\* from.
load_no_map_location(cls, pin, fs) ==
  LET path == pathlib_Path(pin)
      model_dict == torch_load(path, "keep", fs)
  IN IF model_dict.kind = "raise"
     THEN [files |-> fs, path |-> path,
           calls |-> <<<<"torch.load", Outcome(model_dict)>>>>,
           arg |-> Nothing, ret |-> model_dict]
     ELSE LET r == from_dict(cls, model_dict.state)
          IN [files |-> fs, path |-> path,
              calls |-> <<<<"torch.load", "ok">>, <<"from_dict", Outcome(r)>>>>,
              arg |-> model_dict, ret |-> r]

\* load that swallows an error of from_dict and returns None.
load_swallow_errors(cls, pin, fs) ==
  LET path == pathlib_Path(pin)
      model_dict == torch_load(path, "cpu", fs)
  IN IF model_dict.kind = "raise"
     THEN [files |-> fs, path |-> path,
           calls |-> <<<<"torch.load", Outcome(model_dict)>>>>,
           arg |-> Nothing, ret |-> model_dict]
     ELSE LET r == from_dict(cls, model_dict.state)
          IN [files |-> fs, path |-> path,
              calls |-> <<<<"torch.load", "ok">>, <<"from_dict", Outcome(r)>>>>,
              arg |-> model_dict, ret |-> IF r.kind = "raise" THEN PyNone ELSE r]

\* Model.load(cls, path): what it leaves of the files, the calls it made, the
\* mapping it handed to from_dict and what it returns or raises.
load(cls, pin, fs) ==
  LET path == pathlib_Path(pin)
      model_dict == torch_load(path, "cpu", fs)
  IN IF model_dict.kind = "raise"
     THEN [files |-> fs, path |-> path,
           calls |-> <<<<"torch.load", Outcome(model_dict)>>>>,
           arg |-> Nothing, ret |-> model_dict]
     ELSE LET r == from_dict(cls, model_dict.state)
          IN [files |-> fs, path |-> path,
              calls |-> <<<<"torch.load", "ok">>, <<"from_dict", Outcome(r)>>>>,
              arg |-> model_dict, ret |-> r]

\* ------------------------------------------------------------------ actions

Init ==
  /\ inst = [i \in Instances |-> Nothing]
  /\ dirs = {"."}
  /\ files = [n \in Names |-> AbsentFile]
  /\ last = Call("none", "none", NoPath, <<>>, Nothing)
  /\ ret = Nothing
  /\ lastSaved = [n \in Names |-> Nothing]
  /\ savedFrom = [n \in Names |-> "none"]
  /\ written = {}

Construct(cls, i, device) ==
  LET r == construct(cls, device) IN
  /\ inst[i].kind = "none"
  /\ inst' = IF r.kind = "model" THEN [inst EXCEPT ![i] = r] ELSE inst
  /\ last' = Call("construct", cls, NoPath, <<>>, Nothing)
  /\ ret' = r
  /\ UNCHANGED <<dirs, files, lastSaved, savedFrom, written>>

Train(i) ==
  /\ inst[i].kind = "model"
  /\ Steps(inst[i]) < MaxTrain
  /\ inst' = [inst EXCEPT ![i] = train(inst[i])]
  /\ last' = Call("train", inst[i].cls, NoPath, <<<<"train", "ok">>>>, Nothing)
  /\ ret' = Val("cost", "none", {})
  /\ savedFrom' = [n \in Names |-> IF savedFrom[n] = i THEN "none" ELSE savedFrom[n]]
  /\ UNCHANGED <<dirs, files, lastSaved, written>>

Infer(i) ==
  /\ inst[i].kind = "model"
  /\ last' = Call("infer", inst[i].cls, NoPath, <<<<"infer", "ok">>>>, Nothing)
  /\ ret' = Val("dict", "none", {})
  /\ UNCHANGED <<inst, dirs, files, lastSaved, savedFrom, written>>

Save(i, pin, fault) ==
  LET s == save(inst[i], pin, fault, dirs, files)
      n == s.path[2]
      ok == s.ret.kind # "raise"
  IN
  /\ inst[i].kind = "model"
  /\ inst' = [inst EXCEPT ![i] = s.self]
  /\ dirs' = s.dirs
  /\ files' = s.files
  /\ last' = Call("save", inst[i].cls, s.path, s.calls, Nothing)
  /\ ret' = s.ret
  /\ lastSaved' = [lastSaved EXCEPT ![n] = IF ok THEN Val("dict", inst[i].cls, to_dict(inst[i]))
                                            ELSE Nothing]
  /\ savedFrom' = [savedFrom EXCEPT ![n] = IF ok THEN i ELSE "none"]
  /\ written' = IF ok THEN written \cup {n} ELSE written

Load(cls, pin) ==
  LET l == load(cls, pin, files) IN
  /\ files' = l.files
  /\ last' = Call("load", cls, l.path, l.calls, l.arg)
  /\ ret' = l.ret
  /\ UNCHANGED <<inst, dirs, lastSaved, savedFrom, written>>

Next ==
  \/ \E cls \in Classes, i \in Instances, device \in Devices : Construct(cls, i, device)
  \/ \E i \in Instances : Train(i)
  \/ \E i \in Instances : Infer(i)
  \/ \E i \in Instances, pin \in PathInputs, fault \in Faults : Save(i, pin, fault)
  \/ \E cls \in Classes, pin \in PathInputs : Load(cls, pin)

Spec == Init /\ [][Next]_vars

\* ------------------------------------------------------------------- claims

\* A state dictionary's keys and data, whatever device each array is on.
ValuesOf(d) == {<<e[1], e[2]>> : e \in d}

\* A state dictionary with every array placed on the CPU.
OnCpu(d) == {<<e[1], e[2], IF e[1] \in ArrayKeys THEN "cpu" ELSE e[3]>> : e \in d}

\* How many times the call c called callee.
CountCalls(c, callee) == Cardinality({k \in 1..Len(c.calls) : c.calls[k][1] = callee})

\* The instance whose save the most recent call, a load, read back.
Saver == inst[savedFrom[last.path[2]]]

\* The most recent call is a load on the class of a model whose successful
\* save was the latest save to that path and which has not trained since.
LoadAfterSave ==
  /\ last.op = "load"
  /\ savedFrom[last.path[2]] # "none"
  /\ last.cls = Saver.cls

\* C1: m.save(p) followed by load(p) on m's class returns a model whose
\* to_dict() has the keys and data of m.to_dict(), devices set aside.
C1_PersistenceRoundTrip ==
  LoadAfterSave =>
    /\ ret.kind = "model"
    /\ ret.cls = last.cls
    /\ ValuesOf(to_dict(ret)) = ValuesOf(to_dict(Saver))

\* A trained model with an array on a non-CPU device was saved and loaded.
C1_Witness ==
  /\ LoadAfterSave
  /\ ret.kind = "model"
  /\ Steps(Saver) >= 1
  /\ \E e \in to_dict(Saver) : e[3] = "cuda"

\* C2: a subclass of Model that omits an abstract operation fails at
\* construction, and load called on a subclass that omits from_dict fails: it
\* never returns as a no-op.
C2_AbstractCompleteness ==
  /\ (last.op = "construct" /\ last.cls # "Model" /\ AbstractMethods(last.cls) # {})
       => ret.kind = "raise"
  /\ (last.op = "load" /\ last.cls # "Model" /\ "from_dict" \in AbstractMethods(last.cls))
       => ret.kind = "raise"

\* C3: a load that returns normally returns an instance of the class it was
\* invoked on, the result of that class's from_dict applied once to the
\* deserialized mapping, never a non-model value.
C3_LoadReturnsInstance ==
  (last.op = "load" /\ ret.kind # "raise") =>
    /\ ret.kind = "model"
    /\ ret.cls = last.cls
    /\ CountCalls(last, "from_dict") = 1
    /\ ret = from_dict(last.cls, last.arg.state)

\* C4: a load from a path at which no file exists raises the I/O error of the
\* deserializer, returns no model and does not call from_dict.
C4_MissingFile ==
  [][(last'.op = "load" /\ files[last'.path[2]].kind = "absent") =>
       /\ ret' = Raise("FileNotFoundError")
       /\ CountCalls(last', "from_dict") = 0]_vars

\* A load found no file at a path nothing was ever saved to.
C4_Witness ==
  /\ last.op = "load"
  /\ last.path[2] = "a.pt"
  /\ last.cls = "Linear"
  /\ "a.pt" \notin written
  /\ files["a.pt"].kind = "absent"
  /\ ret.kind = "raise"

\* C5: a save to a path whose parent directory does not exist raises, with the
\* I/O error of the write whenever to_dict returned; no directory is created
\* and no file exists at the path afterwards.
C5_MissingParent ==
  [][(last'.op = "save" /\ Parent(last'.path[2]) \notin dirs) =>
       /\ ret'.kind = "raise"
       /\ last'.calls[1][2] = "ok" => ret' = Raise("FileNotFoundError")
       /\ dirs' = dirs
       /\ files'[last'.path[2]].kind = "absent"]_vars

\* A save into the missing directory was attempted and failed in the write.
C5_Witness ==
  /\ last.op = "save"
  /\ last.path[2] = "nodir/b.pt"
  /\ "nodir" \notin dirs
  /\ Len(last.calls) = 2
  /\ ret = Raise("FileNotFoundError")

\* C6: every array of the mapping load hands to from_dict is on the CPU,
\* whatever device it was saved from.
C6_DeviceNormalization ==
  (last.op = "load" /\ last.arg.kind = "dict") =>
    \A e \in last.arg.state : e[1] \in ArrayKeys => e[3] = "cpu"

\* A file holding an array saved from a non-CPU device was loaded.
C6_Witness ==
  /\ last.op = "load"
  /\ last.arg.kind = "dict"
  /\ \E e \in files[last.path[2]].entries : e[3] = "cuda"

\* C7: load calls the deserializer exactly once and from_dict at most once,
\* only after the deserializer succeeded; an error of either reaches the
\* caller unchanged and the files are left as they were.
C7_LoadErrorPropagation ==
  [][last'.op = "load" =>
       /\ Len(last'.calls) \in {1, 2}
       /\ last'.calls[1][1] = "torch.load"
       /\ CountCalls(last', "torch.load") = 1
       /\ Len(last'.calls) = 2 => (last'.calls[1][2] = "ok" /\ last'.calls[2][1] = "from_dict")
       /\ last'.calls[1][2] # "ok" => Len(last'.calls) = 1
       /\ \A k \in 1..Len(last'.calls) :
            last'.calls[k][2] # "ok" => ret' = Raise(last'.calls[k][2])
       /\ files' = files]_vars

\* A load whose from_dict raised on a mapping that lacks its keys.
C7_Witness ==
  /\ last.op = "load"
  /\ Len(last.calls) = 2
  /\ ret = Raise("KeyError")

\* The most recent call is a load from a path whose latest save succeeded, on
\* the class of the model that saved.
LoadOfSnapshot ==
  /\ last.op = "load"
  /\ lastSaved[last.path[2]].kind = "dict"
  /\ last.cls = lastSaved[last.path[2]].cls

\* C8 as stated: load(p) returns a model whose to_dict() equals the to_dict()
\* of the saving model at the moment of the most recent save(p).
C8_LastSaveWins_Stated ==
  LoadOfSnapshot =>
    /\ ret.kind = "model"
    /\ to_dict(ret) = lastSaved[last.path[2]].state

\* C8, amended: load(p) returns a model whose to_dict() equals the to_dict()
\* of the saving model at the moment of the most recent save(p) with every
\* array placed on the CPU; training after that save does not change it.
C8_LastSaveWins ==
  LoadOfSnapshot =>
    /\ ret.kind = "model"
    /\ ret.cls = last.cls
    /\ to_dict(ret) = OnCpu(lastSaved[last.path[2]].state)

\* A load read back a save made after training, while a model of that class
\* has a different state by now.
C8_Witness ==
  /\ LoadOfSnapshot
  /\ ret.kind = "model"
  /\ Steps(ret) >= 1
  /\ \E i \in Instances :
       /\ inst[i].kind = "model"
       /\ inst[i].cls = last.cls
       /\ ValuesOf(to_dict(inst[i])) # ValuesOf(to_dict(ret))

\* C9: save calls to_dict once and then makes one write attempt; if to_dict
\* raises nothing is written; otherwise the files and the result of save are
\* those of that one torch.save call, with no retry and no cleanup.
C9_SavePassThrough ==
  [][last'.op = "save" =>
       /\ last'.calls[1][1] = "to_dict"
       /\ CountCalls(last', "to_dict") = 1
       /\ last'.calls[1][2] # "ok" =>
            /\ Len(last'.calls) = 1
            /\ files' = files
            /\ ret' = Raise(last'.calls[1][2])
       /\ last'.calls[1][2] = "ok" =>
            /\ Len(last'.calls) = 2
            /\ last'.calls[2][1] = "torch.save"
            /\ \E i \in Instances, fault \in Faults :
                 /\ inst[i].kind = "model"
                 /\ files' = torch_save(to_dict(inst[i]), last'.path, fault, dirs, files).files
                 /\ ret' = torch_save(to_dict(inst[i]), last'.path, fault, dirs, files).ret
                 /\ last'.calls[2][2] = Outcome(ret')]_vars

\* A write failed on a path that held a successful save and left neither that
\* state nor the new one.
C9_Witness ==
  /\ last.op = "save"
  /\ ret = Raise("OSError")
  /\ last.path[2] \in written
  /\ files[last.path[2]].kind = "corrupt"

\* C10: save leaves every model as it was and never calls train, whether it
\* succeeds or fails; load leaves the files and every model as they were, and
\* a repeated load returns the same.
C10_SaveLoadFrame ==
  [][/\ last'.op = "save" => (inst' = inst /\ CountCalls(last', "train") = 0)
     /\ last'.op = "load" => (inst' = inst /\ files' = files)
     /\ (last.op = "load" /\ last'.op = "load" /\ last'.path = last.path /\ last'.cls = last.cls)
          => ret' = ret]_vars

\* A save of a trained model with an array on a non-CPU device failed.
C10_Witness ==
  /\ last.op = "save"
  /\ ret.kind = "raise"
  /\ \E i \in Instances :
       /\ inst[i].kind = "model"
       /\ inst[i].cls = last.cls
       /\ Steps(inst[i]) >= 1
       /\ \E e \in to_dict(inst[i]) : e[3] = "cuda"

====
